---------------------------- MODULE Spec2Model ----------------------------
(***************************************************************************)
(* A model of glow.py: the WaveGlow flow stack (create_forward_network and *)
(* infer with their channel bookkeeping), the affine coupling, the         *)
(* invertible 1x1 convolution, causal_conv with time_to_batch and          *)
(* batch_to_time, and compute_waveglow_loss.                               *)
(*                                                                         *)
(* Tensors are B*T*C arrays in the source.  The flow model keeps what the  *)
(* Python code itself decides: the loop indices, the channel counts it     *)
(* passes to invertible1x1Conv and WaveNet, and the slices and             *)
(* concatenations along the channel axis.  The shape checks of the tensor  *)
(* library are not part of glow.py and are not modelled.                   *)
(***************************************************************************)
EXTENDS Integers, Sequences, FiniteSets, TLC

VARIABLES
    self,                \* the WaveGlow object: the fields set by __init__
    error,               \* the exception raised by __init__ ("none": it returned)
    pc,                  \* position of the running call ("idle": no call runs)
    k,                   \* loop index of the running create_forward_network / infer
    calls,               \* number of calls started on the object
    remaining_channels,  \* infer's local variable
    noise_channels,      \* channel count of the noise infer starts from
    fwd_channels,        \* n_channels given to invertible1x1Conv by the current forward call, by step
    fwd_early,           \* steps at which the current forward call split off an early output
    inf_channels,        \* n_channels given to invertible1x1Conv by the current infer call, in visiting order
    inf_early,           \* steps after which the current infer call prepended noise
    first_channels,      \* fwd_channels of the first forward call that returned
    value,               \* the tensor given to time_to_batch, causal_conv or infer's padding
    value2,              \* a second input of causal_conv: value changed at one position
    filter_,             \* the filter given to causal_conv
    dilation,            \* the dilation (for infer's padding: n_group)
    op,                  \* the function applied to value ("none": not yet)
    pad,                 \* the pad length that function computed
    result,              \* its result on value
    result2,             \* its result on value2
    z,                   \* compute_waveglow_loss: the latent tensor
    log_s_list,          \* compute_waveglow_loss: the log_s tensor of every flow step
    log_det_W_list,      \* compute_waveglow_loss: the log-determinant of every flow step
    sigma,               \* compute_waveglow_loss: the standard deviation of the prior
    loss,                \* compute_waveglow_loss: the value returned (NoValue: not yet)
    weights,             \* the trained variables of the scopes glow_k: every W and every WaveNet
    audio,               \* the audio given to create_forward_network, one frame of n_group samples
    lc_batch,            \* the conditioning given to create_forward_network and infer
    audio_batch,         \* the local audio_batch of the running call
    output_audio,        \* create_forward_network's list output_audio
    latent,              \* the z create_forward_network returned
    fwd_nets,            \* the (log_s, shift) of every coupling of the forward call
    infer_sigma,         \* the sigma given to infer
    drawn,               \* the noise tensors infer drew, scaled by sigma, in drawing order
    inf_nets,            \* the (log_s, shift) of every coupling of the infer call
    generated            \* the audio infer returned

flowVars == <<self, error, pc, k, calls, remaining_channels, noise_channels,
              fwd_channels, fwd_early, inf_channels, inf_early, first_channels>>

convVars == <<value, value2, filter_, dilation, op, pad, result, result2>>

lossVars == <<z, log_s_list, log_det_W_list, sigma, loss>>

tensorVars == <<weights, audio, lc_batch, audio_batch, output_audio, latent,
                fwd_nets, infer_sigma, drawn, inf_nets, generated>>

vars == <<flowVars, convVars, lossVars, tensorVars>>

\* what the calls on a WaveGlow object leave alone
exceptFlow == <<convVars, lossVars, tensorVars>>

\* what they leave alone besides the tensors they compute
exceptFlowTensors == <<convVars, lossVars>>

\* what the calls of time_to_batch, batch_to_time and causal_conv leave alone
exceptConv == <<flowVars, lossVars, tensorVars>>

\* what compute_waveglow_loss leaves alone
exceptLoss == <<flowVars, convVars, tensorVars>>

-----------------------------------------------------------------------------
(* Bounds of the model *)

MaxFlows == 5
MaxGroup == 8
MaxEvery == 3
MaxEarly == 2
MaxCalls == 3
MaxBatch == 2
MaxTime == 6
MaxChan == 2
MaxModulus == 4
MaxConvLen == 3
MaxLayer == 2
MaxLossChan == 2
MaxLossFlows == 2
MaxFlowSteps == 4
MaxFlowGroup == 6
MaxHalf == 2

(* Defaults of WaveGlow.__init__ *)
DefaultFlows == 12
DefaultGroup == 8
DefaultEvery == 4
DefaultEarly == 2

(* Default of WaveNet.__init__ and of causal_conv's filter_width *)
KernelSize == 3

-----------------------------------------------------------------------------
(* Helpers on sequences *)

Reverse(s) == [i \in 1..Len(s) |-> s[Len(s) + 1 - i]]

Range(s) == {s[i] : i \in 1..Len(s)}

-----------------------------------------------------------------------------
(* Exact fractions num/den with den > 0, in lowest terms, for the real      *)
(* numbers the source computes with                                        *)

Abs(n) == IF n < 0 THEN -n ELSE n

RECURSIVE GCD(_, _)
GCD(a, b) == IF b = 0 THEN a ELSE GCD(b, a % b)

Frac(n, d) ==
    LET g == GCD(Abs(n), Abs(d))
        s == IF d < 0 THEN -1 ELSE 1
    IN  [num |-> (s * n) \div g, den |-> (s * d) \div g]

FromInt(n) == [num |-> n, den |-> 1]

\* the value of a variable that holds no fraction yet
NoValue == [num |-> 0, den |-> 0]

RAdd(a, b) == Frac(a.num * b.den + b.num * a.den, a.den * b.den)

RSub(a, b) == Frac(a.num * b.den - b.num * a.den, a.den * b.den)

RMul(a, b) == Frac(a.num * b.num, a.den * b.den)

\* a / b for b # 0
RDiv(a, b) == Frac(a.num * b.den, a.den * b.num)

-----------------------------------------------------------------------------
(* Tensors: a shape <<B, T, C>> and the elements in row-major order *)

Tensor(shape, data) == [shape |-> shape, data |-> data]

NumElements(shape) == shape[1] * shape[2] * shape[3]

\* element [b, t, c] of tensor x, indices from 0
At(x, b, t, c) == x.data[(b * x.shape[2] + t) * x.shape[3] + c + 1]

\* the tensor of the given shape whose element [b, t, c] is f[<<b, t, c>>]
Build(shape, f(_, _, _)) ==
    Tensor(shape,
           [i \in 1..NumElements(shape) |->
               f((i - 1) \div (shape[2] * shape[3]),
                 ((i - 1) % (shape[2] * shape[3])) \div shape[3],
                 (i - 1) % shape[3])])

\* tf.pad(x, [[0, 0], [before, after], [0, 0]])
TfPad(x, before, after) ==
    LET old(b, t, c) == IF t >= before /\ t < before + x.shape[2]
                          THEN At(x, b, t - before, c)
                          ELSE 0
    IN  Build(<<x.shape[1], before + x.shape[2] + after, x.shape[3]>>, old)

\* tf.reshape(x, shape), where one entry of shape may be -1
TfReshape(x, shape) ==
    LET known == (IF shape[1] = -1 THEN 1 ELSE shape[1])
                   * (IF shape[2] = -1 THEN 1 ELSE shape[2])
                   * (IF shape[3] = -1 THEN 1 ELSE shape[3])
        rest  == IF known = 0 THEN 0 ELSE Len(x.data) \div known
    IN  Tensor([i \in 1..3 |-> IF shape[i] = -1 THEN rest ELSE shape[i]], x.data)

\* tf.transpose(x, perm=[1, 0, 2])
TfTranspose(x) ==
    LET old(b, t, c) == At(x, t, b, c)
    IN  Build(<<x.shape[2], x.shape[1], x.shape[3]>>, old)

\* tf.slice(x, [0, 0, 0], [-1, size, -1])
TfSlice(x, size) ==
    LET old(b, t, c) == At(x, b, t, c)
    IN  Build(<<x.shape[1], size, x.shape[3]>>, old)

\* tf.nn.conv1d(x, w, stride=1, padding='VALID') for one input and one
\* output channel: w is the sequence of the filter's taps
RECURSIVE Taps(_, _, _, _, _)
Taps(x, w, b, t, j) ==
    IF j > Len(w) THEN 0
    ELSE w[j] * At(x, b, t + j - 1, 0) + Taps(x, w, b, t, j + 1)

TfConv1dValid(x, w) ==
    LET out(b, t, c) == Taps(x, w, b, t, 1)
    IN  Build(<<x.shape[1], x.shape[2] - Len(w) + 1, 1>>, out)

-----------------------------------------------------------------------------
(* time_to_batch, batch_to_time, causal_conv *)

\* line 35
PadElementsShort(length, d) == d - (length % d)

PadElements(length, d) == d - 1 - ((length + d - 1) % d)

time_to_batch(x, d) ==
    LET padded     == TfPad(x, 0, PadElements(x.shape[2], d))
        reshaped   == TfReshape(padded, <<-1, d, x.shape[3]>>)
        transposed == TfTranspose(reshaped)
    IN  TfReshape(transposed, <<x.shape[1] * d, -1, x.shape[3]>>)

batch_to_time(x, d) ==
    LET prepared   == TfReshape(x, <<d, -1, x.shape[3]>>)
        transposed == TfTranspose(prepared)
    IN  TfReshape(transposed, <<x.shape[1] \div d, -1, x.shape[3]>>)

\* line 54
CausalPad(filter_width, d) == ((filter_width - 1) * d) \div 2

causal_conv(x, w, d, filter_width) ==
    LET padded   == TfPad(x, CausalPad(filter_width, d), CausalPad(filter_width, d))
        restored == IF d > 1
                      THEN batch_to_time(TfConv1dValid(time_to_batch(padded, d), w), d)
                      ELSE TfConv1dValid(padded, w)
    IN  TfSlice(restored, x.shape[2])

\* WaveNet.create_network, line 141: the dilation of layer i
RECURSIVE LayerDilation(_)
LayerDilation(i) == IF i = 0 THEN 1 ELSE 2 * LayerDilation(i - 1)

\* infer, line 346
InferPad(length, n_group) == n_group - 1 - ((length + n_group - 1) % n_group)

\* infer, lines 346-348, on the tensor lc; lc_dim is its channel count
InferPadReshape(lc, n_group) ==
    TfReshape(TfPad(lc, 0, InferPad(lc.shape[2], n_group)),
              <<lc.shape[1], -1, lc.shape[3] * n_group>>)

-----------------------------------------------------------------------------
(* compute_waveglow_loss *)

\* tf.reduce_sum of a sequence of elements
RECURSIVE SeqSum(_)
SeqSum(d) == IF d = <<>> THEN 0 ELSE Head(d) + SeqSum(Tail(d))

\* tf.reduce_sum(x)
ReduceSum(x) == SeqSum(x.data)

\* tf.reduce_sum(x * x)
ReduceSumSquares(x) == SeqSum([i \in 1..Len(x.data) |-> x.data[i] * x.data[i]])

\* lines 72-78: the loop over enumerate(log_s_list); i counts from 0, and the
\* totals are unbound before the first iteration
RECURSIVE LossTotals(_, _, _, _)
LossTotals(ls_list, ld_list, i, totals) ==
    IF i >= Len(ls_list)
      THEN totals
      ELSE LossTotals(ls_list, ld_list, i + 1,
               IF i = 0
                 THEN [log_s_total |-> ReduceSum(ls_list[i + 1]),
                       log_det_W_total |-> ld_list[i + 1]]
                 ELSE [log_s_total |-> totals.log_s_total + ReduceSum(ls_list[i + 1]),
                       log_det_W_total |-> totals.log_det_W_total + ld_list[i + 1]])

\* line 83
LossValueTwiceLogS(sum_sq, log_s_total, log_det_W_total, sg) ==
    RSub(RSub(RDiv(FromInt(sum_sq), RMul(RMul(FromInt(2), sg), sg)),
              FromInt(log_s_total)),
         FromInt(log_s_total))

LossValue(sum_sq, log_s_total, log_det_W_total, sg) ==
    RSub(RSub(RDiv(FromInt(sum_sq), RMul(RMul(FromInt(2), sg), sg)),
              FromInt(log_s_total)),
         FromInt(log_det_W_total))

compute_waveglow_loss(zz, ls_list, ld_list, sg) ==
    LET totals     == LossTotals(ls_list, ld_list, 0,
                                 [log_s_total |-> "unbound", log_det_W_total |-> "unbound"])
        value1     == LossValue(ReduceSumSquares(zz), totals.log_s_total,
                                totals.log_det_W_total, sg)
        total_size == zz.shape[1] * zz.shape[2] * zz.shape[3]
    IN  RDiv(value1, FromInt(total_size))

-----------------------------------------------------------------------------
(* The flow on one frame: a tensor of shape 1*1*C, written as the sequence  *)
(* of its C channels, each a fraction                                      *)

\* x[:, :, :n]
ChannelsTo(x, n) == SubSeq(x, 1, n)

\* x[:, :, n:]
ChannelsFrom(x, n) == SubSeq(x, n + 1, Len(x))

\* random orthogonal matrices of np.linalg.qr and two matrices training can
\* reach that are not orthogonal; W[i][j] is row i, column j
MixMatrix(n, m) ==
    [i \in 1..n |-> [j \in 1..n |->
        CASE m = 0 -> IF j = i THEN 1 ELSE 0
          [] m = 1 -> IF j = n + 1 - i THEN 1 ELSE 0
          [] m = 2 -> IF j = (i % n) + 1 THEN 1 ELSE 0
          [] m = 3 -> IF i = (j % n) + 1 THEN 1 ELSE 0
          [] m = 4 -> IF j = i \/ (i = 1 /\ j = n) THEN 1 ELSE 0
          [] OTHER -> IF j = i THEN 1 ELSE IF i = 1 /\ j = n THEN -1 ELSE 0]]

Matrices(n) == {MixMatrix(n, m) : m \in 0..5}

RECURSIVE DotFrom(_, _, _, _)
DotFrom(x, W, j, i) ==
    IF i > Len(x) THEN FromInt(0)
    ELSE RAdd(RMul(x[i], FromInt(W[i][j])), DotFrom(x, W, j, i + 1))

\* tf.nn.conv1d(x, reshape(W, [1, n, n])): channel j of the result is the sum
\* over i of x[i] * W[i][j]
Conv1x1(x, W) == [j \in 1..Len(W) |-> DotFrom(x, W, j, 1)]

MatMul(A, B) ==
    [i \in 1..Len(A) |-> [j \in 1..Len(A) |->
        SeqSum([m \in 1..Len(A) |-> A[i][m] * B[m][j]])]]

\* tf.matrix_inverse(W): the matrix M with W M = 1
MatrixNoInverse(W) == W

MatrixInverse(W) ==
    CHOOSE M \in Matrices(Len(W)) : MatMul(W, M) = MixMatrix(Len(W), 0)

\* invertible1x1Conv(x, n_channels, forward) with the variable W of its scope
invertible1x1Conv(x, W, forward) ==
    IF forward THEN Conv1x1(x, W) ELSE Conv1x1(x, MatrixInverse(W))

\* the variable W of scope glow_k, of shape n_channels * n_channels
VariableW(step, n_channels) == MixMatrix(n_channels, (weights.mix + step) % 6)

\* tf.exp on the integers, in units of ln 2
RECURSIVE Pow2(_)
Pow2(n) == IF n = 0 THEN 1 ELSE 2 * Pow2(n - 1)

Exp(n) == IF n >= 0 THEN FromInt(Pow2(n)) ELSE Frac(1, Pow2(-n))

\* a number that depends on every channel of x
RECURSIVE Digest(_, _)
Digest(x, i) ==
    IF i > Len(x) THEN 0
    ELSE i * (x[i].num + 2 * x[i].den) + Digest(x, i + 1)

\* WaveNet.create_network(audio_0, lc) for the WaveNet of scope glow_k: a fixed
\* function of audio_0 and lc, set by the trained variables; one log_s and
\* one shift for every channel of audio_0.  The zero-initialized variables
\* (a = c = 0) give log_s = 0 and shift = 0.
create_network(step, audio_0, lc) ==
    LET h == Digest(audio_0, 1) + lc + step
    IN  [log_s |-> [j \in 1..Len(audio_0) |-> ((weights.a * (h + j) + 1) % 3) - 1],
         shift |-> [j \in 1..Len(audio_0) |-> FromInt(weights.c * (h + 2 * j))]]

\* lines 306-313: the affine coupling of step k on n_channels channels
\* (n_channels >= 0, where int(n / 2) is the quotient rounded down)
CouplingForward(x, lc, step, n_channels) ==
    LET n_half  == n_channels \div 2
        audio_0 == ChannelsTo(x, n_half)
        audio_1 == ChannelsFrom(x, n_half)
        net     == create_network(step, audio_0, lc)
        scaled  == [j \in 1..Len(audio_1) |->
                       RAdd(RMul(audio_1[j], Exp(net.log_s[j])), net.shift[j])]
    IN  [audio |-> audio_0 \o scaled, net |-> net]

\* lines 358-364: the inverse affine coupling of step k
CouplingInverseNoShift(x, lc, step, n_channels) ==
    LET n_half  == n_channels \div 2
        audio_0 == ChannelsTo(x, n_half)
        audio_1 == ChannelsFrom(x, n_half)
        net     == create_network(step, audio_0, lc)
        scaled  == [j \in 1..Len(audio_1) |->
                       RSub(RDiv(audio_1[j], Exp(net.log_s[j])), net.shift[j])]
    IN  [audio |-> audio_0 \o scaled, net |-> net]

CouplingInverse(x, lc, step, n_channels) ==
    LET n_half  == n_channels \div 2
        audio_0 == ChannelsTo(x, n_half)
        audio_1 == ChannelsFrom(x, n_half)
        net     == create_network(step, audio_0, lc)
        scaled  == [j \in 1..Len(audio_1) |->
                       RDiv(RSub(audio_1[j], net.shift[j]), Exp(net.log_s[j]))]
    IN  [audio |-> audio_0 \o scaled, net |-> net]

\* tf.concat(list, axis=-1)
RECURSIVE Concat(_)
Concat(list) == IF list = <<>> THEN <<>> ELSE Head(list) \o Concat(Tail(list))

\* x * sigma
Scale(x, sg) == [j \in 1..Len(x) |-> RMul(x[j], sg)]

-----------------------------------------------------------------------------
(* WaveGlow.__init__ *)

WaveGlowInit(n_flows, n_group, n_early_every, n_early_size) ==
    [n_flows |-> n_flows,
     n_group |-> n_group,
     n_early_every |-> n_early_every,
     n_early_size |-> n_early_size,
     n_remaining_channels |-> n_group]

DefaultConfig ==
    WaveGlowInit(DefaultFlows, DefaultGroup, DefaultEvery, DefaultEarly)

Configs ==
    {WaveGlowInit(f, g, e, s) :
        f \in 1..MaxFlows, g \in 1..MaxGroup, e \in 1..MaxEvery, s \in 0..MaxEarly}
    \cup {DefaultConfig}

\* no call runs on the object
FlowIdle ==
    /\ error = "none"
    /\ pc = "idle"
    /\ k = 0
    /\ calls = 0
    /\ remaining_channels = 0
    /\ noise_channels = 0
    /\ fwd_channels = <<>>
    /\ fwd_early = <<>>
    /\ inf_channels = <<>>
    /\ inf_early = <<>>
    /\ first_channels = <<>>

\* no tensor function has been given an input
ConvIdle ==
    /\ value = Tensor(<<0, 0, 0>>, <<>>)
    /\ value2 = Tensor(<<0, 0, 0>>, <<>>)
    /\ filter_ = <<>>
    /\ dilation = 1
    /\ op = "none"
    /\ pad = 0
    /\ result = Tensor(<<0, 0, 0>>, <<>>)
    /\ result2 = Tensor(<<0, 0, 0>>, <<>>)

\* compute_waveglow_loss has been given no input
LossIdle ==
    /\ z = Tensor(<<0, 0, 0>>, <<>>)
    /\ log_s_list = <<>>
    /\ log_det_W_list = <<>>
    /\ sigma = FromInt(1)
    /\ loss = NoValue

\* no tensor has been given to the flow
TensorIdle ==
    /\ weights = [mix |-> 0, a |-> 0, c |-> 0]
    /\ audio = <<>>
    /\ lc_batch = 0
    /\ audio_batch = <<>>
    /\ output_audio = <<>>
    /\ latent = <<>>
    /\ fwd_nets = <<>>
    /\ infer_sigma = FromInt(1)
    /\ drawn = <<>>
    /\ inf_nets = <<>>
    /\ generated = <<>>

Init ==
    /\ self \in Configs
    /\ FlowIdle
    /\ ConvIdle
    /\ LossIdle
    /\ TensorIdle

-----------------------------------------------------------------------------
(* WaveGlow.create_forward_network *)

\* the test of line 295
FwdEarlyCondNoGuard(step) == step % self.n_early_every = 0

FwdEarlyCond(step) == step % self.n_early_every = 0 /\ step > 0

\* the update of line 298
FwdUpdateAfter(obj) == obj

FwdUpdateRemaining(obj) ==
    [obj EXCEPT !.n_remaining_channels = @ - obj.n_early_size]

\* entry of the call: the lists are created empty, the loop starts at k = 0
ForwardBeginBook ==
    /\ pc = "idle"
    /\ calls < MaxCalls
    /\ calls' = calls + 1
    /\ k' = 0
    /\ fwd_channels' = <<>>
    /\ fwd_early' = <<>>
    /\ pc' = "fwd_early"
    /\ UNCHANGED <<self, error, remaining_channels, noise_channels,
                   inf_channels, inf_early, first_channels>>

\* lines 295-298, the branch taken
FwdEarlyBook ==
    /\ pc = "fwd_early"
    /\ FwdEarlyCond(k)
    /\ fwd_early' = Append(fwd_early, k)
    /\ self' = FwdUpdateRemaining(self)
    /\ pc' = "fwd_glow"
    /\ UNCHANGED <<error, k, calls, remaining_channels, noise_channels,
                   fwd_channels, inf_channels, inf_early, first_channels>>

\* lines 295-298, the branch not taken
FwdNoEarlyBook ==
    /\ pc = "fwd_early"
    /\ ~FwdEarlyCond(k)
    /\ pc' = "fwd_glow"
    /\ UNCHANGED <<self, error, k, calls, remaining_channels, noise_channels,
                   fwd_channels, fwd_early, inf_channels, inf_early, first_channels>>

\* lines 300-315: the 1x1 convolution and the coupling of step k, then the
\* loop's next index or the return of lines 317-318
FwdGlowBook ==
    /\ pc = "fwd_glow"
    /\ fwd_channels' = Append(fwd_channels, self.n_remaining_channels)
    /\ IF k + 1 < self.n_flows
         THEN /\ k' = k + 1
              /\ pc' = "fwd_early"
              /\ UNCHANGED first_channels
         ELSE /\ k' = k
              /\ pc' = "idle"
              /\ first_channels' = IF first_channels = <<>>
                                     THEN fwd_channels'
                                     ELSE first_channels
    /\ UNCHANGED <<self, error, calls, remaining_channels, noise_channels,
                   fwd_early, inf_channels, inf_early>>

-----------------------------------------------------------------------------
(* WaveGlow.infer *)

\* lines 324-327: the loop that computes the remaining channels
RECURSIVE InferRemainingLoop(_, _)
InferRemainingLoop(step, rem) ==
    IF step >= self.n_flows
      THEN rem
      ELSE InferRemainingLoop(step + 1,
               IF step % self.n_early_every = 0 /\ step > 0
                 THEN rem - self.n_early_size
                 ELSE rem)

InferRemainingNoLoop == self.n_group

InferRemainingChannels == InferRemainingLoop(0, self.n_group)

\* the test of line 370
InferEarlyCond(step) == step % self.n_early_every = 0 /\ step > 0

\* lines 324-352: the remaining channels, the noise, the loop starts at n_flows - 1
InferBeginBook ==
    /\ pc = "idle"
    /\ calls < MaxCalls
    /\ calls' = calls + 1
    /\ remaining_channels' = InferRemainingChannels
    /\ noise_channels' = remaining_channels'
    /\ k' = self.n_flows - 1
    /\ inf_channels' = <<>>
    /\ inf_early' = <<>>
    /\ pc' = "inf_glow"
    /\ UNCHANGED <<self, error, fwd_channels, fwd_early, first_channels>>

\* lines 356-367: the inverse coupling and the inverse 1x1 convolution of step k
InfGlowBook ==
    /\ pc = "inf_glow"
    /\ inf_channels' = Append(inf_channels, remaining_channels)
    /\ pc' = "inf_early"
    /\ UNCHANGED <<self, error, k, calls, remaining_channels, noise_channels,
                   fwd_channels, fwd_early, inf_early, first_channels>>

\* lines 370-375, the branch taken, then the loop's next index or the return
InfEarlyBook ==
    /\ pc = "inf_early"
    /\ InferEarlyCond(k)
    /\ remaining_channels' = remaining_channels + self.n_early_size
    /\ inf_early' = Append(inf_early, k)
    /\ IF k > 0 THEN k' = k - 1 /\ pc' = "inf_glow"
                ELSE k' = k /\ pc' = "idle"
    /\ UNCHANGED <<self, error, calls, noise_channels, fwd_channels, fwd_early,
                   inf_channels, first_channels>>

\* lines 370-375, the branch not taken
InfNoEarlyBook ==
    /\ pc = "inf_early"
    /\ ~InferEarlyCond(k)
    /\ IF k > 0 THEN k' = k - 1 /\ pc' = "inf_glow"
                ELSE k' = k /\ pc' = "idle"
    /\ UNCHANGED <<self, error, calls, remaining_channels, noise_channels,
                   fwd_channels, fwd_early, inf_channels, inf_early, first_channels>>

\* the calls with their tensors left out
ForwardBegin == ForwardBeginBook /\ UNCHANGED exceptFlow

FwdEarly == FwdEarlyBook /\ UNCHANGED exceptFlow

FwdNoEarly == FwdNoEarlyBook /\ UNCHANGED exceptFlow

FwdGlow == FwdGlowBook /\ UNCHANGED exceptFlow

InferBegin == InferBeginBook /\ UNCHANGED exceptFlow

InfGlow == InfGlowBook /\ UNCHANGED exceptFlow

InfEarly == InfEarlyBook /\ UNCHANGED exceptFlow

InfNoEarly == InfNoEarlyBook /\ UNCHANGED exceptFlow

\* the calls with their tensors

\* line 287: audio_batch is the audio in frames of n_group channels.  The
\* 1x1 convolution takes a tensor of n_remaining_channels channels, so the
\* forward network is built on an object that has built none before.
ForwardBeginT ==
    /\ ForwardBeginBook
    /\ fwd_channels = <<>>
    /\ audio_batch' = audio
    /\ output_audio' = <<>>
    /\ fwd_nets' = <<>>
    /\ UNCHANGED <<weights, audio, lc_batch, latent, infer_sigma, drawn, inf_nets,
                   generated>>
    /\ UNCHANGED exceptFlowTensors

\* lines 296-297
FwdEarlyT ==
    /\ FwdEarlyBook
    /\ output_audio' = Append(output_audio, ChannelsTo(audio_batch, self.n_early_size))
    /\ audio_batch' = ChannelsFrom(audio_batch, self.n_early_size)
    /\ UNCHANGED <<weights, audio, lc_batch, latent, fwd_nets, infer_sigma, drawn,
                   inf_nets, generated>>
    /\ UNCHANGED exceptFlowTensors

FwdNoEarlyT ==
    /\ FwdNoEarlyBook
    /\ UNCHANGED tensorVars
    /\ UNCHANGED exceptFlowTensors

\* lines 300-318
FwdGlowT ==
    /\ FwdGlowBook
    /\ LET n     == self.n_remaining_channels
           mixed == invertible1x1Conv(audio_batch, VariableW(k, n), TRUE)
           out   == CouplingForward(mixed, lc_batch, k, n)
       IN  /\ audio_batch' = out.audio
           /\ fwd_nets' = Append(fwd_nets, out.net)
    /\ IF pc' = "idle"
         THEN /\ output_audio' = Append(output_audio, audio_batch')
              /\ latent' = Concat(output_audio')
         ELSE UNCHANGED <<output_audio, latent>>
    /\ UNCHANGED <<weights, audio, lc_batch, infer_sigma, drawn, inf_nets, generated>>
    /\ UNCHANGED exceptFlowTensors

\* values tf.random_normal([1, 1, n]) can return: zeros, and every tensor
\* that sigma scales to n consecutive channels of the latent
RandomNormal(n, sg) ==
    {[j \in 1..n |-> FromInt(0)]}
    \cup {[j \in 1..n |-> RDiv(latent[o + j], sg)] : o \in 0..(Len(latent) - n)}

\* lines 324-352; the inference network is built once
InferBeginT ==
    /\ InferBeginBook
    /\ inf_channels = <<>>
    /\ \E sg \in {FromInt(1), FromInt(2)} :
          /\ infer_sigma' = sg
          /\ \E noise \in RandomNormal(remaining_channels', sg) :
                audio_batch' = Scale(noise, sg)
    /\ drawn' = <<audio_batch'>>
    /\ inf_nets' = <<>>
    /\ generated' = <<>>
    /\ UNCHANGED <<weights, audio, lc_batch, output_audio, latent, fwd_nets>>
    /\ UNCHANGED exceptFlowTensors

\* lines 356-367
InfGlowT ==
    /\ InfGlowBook
    /\ LET out == CouplingInverse(audio_batch, lc_batch, k, remaining_channels)
       IN  /\ audio_batch' = invertible1x1Conv(out.audio,
                                 VariableW(k, remaining_channels), FALSE)
           /\ inf_nets' = Append(inf_nets, out.net)
    /\ UNCHANGED <<weights, audio, lc_batch, output_audio, latent, fwd_nets,
                   infer_sigma, drawn, generated>>
    /\ UNCHANGED exceptFlowTensors

\* lines 370-375
InfEarlyT ==
    /\ InfEarlyBook
    /\ \E noise \in RandomNormal(self.n_early_size, infer_sigma) :
          /\ drawn' = Append(drawn, Scale(noise, infer_sigma))
          /\ audio_batch' = Scale(noise, infer_sigma) \o audio_batch
    /\ generated' = IF pc' = "idle" THEN audio_batch' ELSE generated
    /\ UNCHANGED <<weights, audio, lc_batch, output_audio, latent, fwd_nets,
                   infer_sigma, inf_nets>>
    /\ UNCHANGED exceptFlowTensors

\* line 370 not taken; after step 0 lines 378-379 return the audio
InfNoEarlyT ==
    /\ InfNoEarlyBook
    /\ generated' = IF pc' = "idle" THEN audio_batch ELSE generated
    /\ UNCHANGED <<weights, audio, lc_batch, audio_batch, output_audio, latent,
                   fwd_nets, infer_sigma, drawn, inf_nets>>
    /\ UNCHANGED exceptFlowTensors

Next ==
    \/ ForwardBegin
    \/ FwdEarly
    \/ FwdNoEarly
    \/ FwdGlow
    \/ InferBegin
    \/ InfGlow
    \/ InfEarly
    \/ InfNoEarly

Spec == Init /\ [][Next]_vars

-----------------------------------------------------------------------------
(* The padding of time_to_batch and of infer, applied to tensors of every    *)
(* small shape and every modulus                                           *)

\* the tensor of the given shape whose elements are 1, 2, 3, ... (none is 0)
Marked(shape) == Tensor(shape, [i \in 1..NumElements(shape) |-> i])

PadInit ==
    /\ self = DefaultConfig
    /\ FlowIdle
    /\ LossIdle
    /\ TensorIdle
    /\ value \in {Marked(<<b, t, c>>) :
                     b \in 1..MaxBatch, t \in 0..MaxTime, c \in 1..MaxChan}
    /\ value2 = Tensor(<<0, 0, 0>>, <<>>)
    /\ filter_ = <<>>
    /\ dilation \in 1..MaxModulus
    /\ op = "none"
    /\ pad = 0
    /\ result = Tensor(<<0, 0, 0>>, <<>>)
    /\ result2 = Tensor(<<0, 0, 0>>, <<>>)

TimeToBatch ==
    /\ op = "none"
    /\ op' = "time_to_batch"
    /\ pad' = PadElements(value.shape[2], dilation)
    /\ result' = time_to_batch(value, dilation)
    /\ UNCHANGED <<value, value2, filter_, dilation, result2>>
    /\ UNCHANGED exceptConv

BatchToTime ==
    /\ op = "time_to_batch"
    /\ op' = "batch_to_time"
    /\ result' = batch_to_time(result, dilation)
    /\ UNCHANGED <<value, value2, filter_, dilation, pad, result2>>
    /\ UNCHANGED exceptConv

\* infer, lines 346-348, with dilation standing for n_group
InferPadding ==
    /\ op = "none"
    /\ op' = "infer_pad"
    /\ pad' = InferPad(value.shape[2], dilation)
    /\ result' = InferPadReshape(value, dilation)
    /\ UNCHANGED <<value, value2, filter_, dilation, result2>>
    /\ UNCHANGED exceptConv

PadNext ==
    \/ TimeToBatch
    \/ BatchToTime
    \/ InferPadding

SpecPad == PadInit /\ [][PadNext]_vars

-----------------------------------------------------------------------------
(* causal_conv on a one-channel input and on the same input changed at one  *)
(* position                                                                *)

\* x with 1 added to the element at index i of its data
Perturbed(x, i) == Tensor(x.shape, [x.data EXCEPT ![i] = @ + 1])

ConvInit ==
    /\ self = DefaultConfig
    /\ FlowIdle
    /\ LossIdle
    /\ TensorIdle
    /\ \E b \in 1..MaxBatch, t \in 1..MaxConvLen :
          /\ value \in {Tensor(<<b, t, 1>>, d) : d \in [1..(b * t) -> {0, 1}]}
          /\ \E i \in 1..(b * t) : value2 = Perturbed(value, i)
    /\ filter_ \in [1..KernelSize -> {0, 1}]
    /\ dilation \in {LayerDilation(i) : i \in 0..MaxLayer}
    /\ op = "none"
    /\ pad = 0
    /\ result = Tensor(<<0, 0, 0>>, <<>>)
    /\ result2 = Tensor(<<0, 0, 0>>, <<>>)

\* WaveNet.dilated_conv1d, line 165, on both inputs
CausalConv ==
    /\ op = "none"
    /\ op' = "causal_conv"
    /\ pad' = CausalPad(KernelSize, dilation)
    /\ result' = causal_conv(value, filter_, dilation, KernelSize)
    /\ result2' = causal_conv(value2, filter_, dilation, KernelSize)
    /\ UNCHANGED <<value, value2, filter_, dilation>>
    /\ UNCHANGED exceptConv

ConvNext == CausalConv

SpecConv == ConvInit /\ [][ConvNext]_vars

-----------------------------------------------------------------------------
(* compute_waveglow_loss on the output of a forward pass: one log_s tensor   *)
(* and one log-determinant for every flow step                             *)

Sigmas == {FromInt(1), FromInt(2), Frac(1, 2)}

LossInit ==
    /\ self = DefaultConfig
    /\ FlowIdle
    /\ ConvIdle
    /\ TensorIdle
    /\ \E c \in 1..MaxLossChan :
          z \in {Tensor(<<1, 1, c>>, d) : d \in [1..c -> {-1, 0, 2}]}
    /\ \E n \in 1..MaxLossFlows :
          /\ log_s_list \in [1..n -> {Tensor(<<1, 1, 2>>, d) : d \in [1..2 -> {0, 1}]}]
          /\ log_det_W_list \in [1..n -> {-1, 0}]
    /\ sigma \in Sigmas
    /\ loss = NoValue

ComputeLoss ==
    /\ loss = NoValue
    /\ loss' = compute_waveglow_loss(z, log_s_list, log_det_W_list, sigma)
    /\ UNCHANGED <<z, log_s_list, log_det_W_list, sigma>>
    /\ UNCHANGED exceptLoss

LossNext == ComputeLoss

SpecLoss == LossInit /\ [][LossNext]_vars

-----------------------------------------------------------------------------
(* The flow with its tensors, on the configurations whose channel counts    *)
(* are even and positive at every step                                     *)

\* the variables as initialized (identity-like W, zero-initialized WaveNet
\* output) and as training may leave them
WeightSets ==
    {[mix |-> 0, a |-> 0, c |-> 0],
     [mix |-> 1, a |-> 1, c |-> 1],
     [mix |-> 2, a |-> 1, c |-> 0],
     [mix |-> 4, a |-> 2, c |-> 1]}

Frames(n) ==
    {[j \in 1..n |-> FromInt(0)],
     [j \in 1..n |-> FromInt(j)],
     [j \in 1..n |-> FromInt((j % 2) - 1)]}

EvenPositive(cfg) ==
    \A j \in 0..(cfg.n_flows - 1) :
        LET w == cfg.n_group
                   - cfg.n_early_size
                       * Cardinality({i \in 1..j : i % cfg.n_early_every = 0})
        IN  w > 0 /\ w % 2 = 0

FlowConfigs ==
    {cfg \in {WaveGlowInit(f, g, e, s) :
                 f \in 1..MaxFlowSteps, g \in 1..MaxFlowGroup,
                 e \in 1..MaxEvery, s \in 0..MaxEarly} : EvenPositive(cfg)}

FlowInit ==
    /\ self \in FlowConfigs
    /\ FlowIdle
    /\ ConvIdle
    /\ LossIdle
    /\ weights \in WeightSets
    /\ audio \in Frames(self.n_group)
    /\ lc_batch \in {0, 1}
    /\ audio_batch = <<>>
    /\ output_audio = <<>>
    /\ latent = <<>>
    /\ fwd_nets = <<>>
    /\ infer_sigma = FromInt(1)
    /\ drawn = <<>>
    /\ inf_nets = <<>>
    /\ generated = <<>>

FlowNext ==
    \/ ForwardBeginT
    \/ FwdEarlyT
    \/ FwdNoEarlyT
    \/ FwdGlowT
    \/ InferBeginT
    \/ InfGlowT
    \/ InfEarlyT
    \/ InfNoEarlyT

SpecFlow == FlowInit /\ [][FlowNext]_vars

-----------------------------------------------------------------------------
(* One affine coupling forward and then inverse, in the scope glow_0, on    *)
(* every small frame of an even channel count                              *)

CouplingInit ==
    /\ self = DefaultConfig
    /\ FlowIdle
    /\ ConvIdle
    /\ LossIdle
    /\ weights \in WeightSets
    /\ \E n_half \in 1..MaxHalf :
          audio \in {[j \in 1..(2 * n_half) |-> FromInt(d[j])] :
                        d \in [1..(2 * n_half) -> {-1, 0, 1}]}
    /\ lc_batch \in {0, 1}
    /\ audio_batch = <<>>
    /\ output_audio = <<>>
    /\ latent = <<>>
    /\ fwd_nets = <<>>
    /\ infer_sigma = FromInt(1)
    /\ drawn = <<>>
    /\ inf_nets = <<>>
    /\ generated = <<>>

\* lines 306-313 on audio
CoupleForward ==
    /\ audio_batch = <<>>
    /\ LET out == CouplingForward(audio, lc_batch, k, Len(audio))
       IN  /\ audio_batch' = out.audio
           /\ fwd_nets' = <<out.net>>
    /\ UNCHANGED <<weights, audio, lc_batch, output_audio, latent, infer_sigma,
                   drawn, inf_nets, generated>>
    /\ UNCHANGED <<flowVars, convVars, lossVars>>

\* lines 358-364 on the result of the forward coupling
CoupleInverse ==
    /\ audio_batch # <<>>
    /\ generated = <<>>
    /\ LET out == CouplingInverse(audio_batch, lc_batch, k, Len(audio_batch))
       IN  /\ generated' = out.audio
           /\ inf_nets' = <<out.net>>
    /\ UNCHANGED <<weights, audio, lc_batch, audio_batch, output_audio, latent,
                   fwd_nets, infer_sigma, drawn>>
    /\ UNCHANGED <<flowVars, convVars, lossVars>>

CouplingNext ==
    \/ CoupleForward
    \/ CoupleInverse

SpecCoupling == CouplingInit /\ [][CouplingNext]_vars

-----------------------------------------------------------------------------
(* Properties of the channel bookkeeping, checked under Spec *)

IsDefaultConfig ==
    /\ self.n_flows = DefaultFlows
    /\ self.n_group = DefaultGroup
    /\ self.n_early_every = DefaultEvery
    /\ self.n_early_size = DefaultEarly

ForwardReturned == pc = "idle" /\ Len(fwd_channels) = self.n_flows

InferReturned == pc = "idle" /\ Len(inf_channels) = self.n_flows

\* number of steps of the current forward call whose early-output test has run
FwdTested == Len(fwd_channels) + (IF pc = "fwd_glow" THEN 1 ELSE 0)

\* the steps at which the flow is to split off an early output
EarlySteps(n) == {j \in 0..(n - 1) : j > 0 /\ j % self.n_early_every = 0}

\* the channel count on which step j of a fresh model is to work
WidthAt(j) == self.n_group - self.n_early_size * Cardinality(EarlySteps(j + 1))

\* C1: on a fresh model with n_flows=12, n_group=8, n_early_every=4,
\* n_early_size=2 the forward pass applies the 1x1 convolution and the coupling
\* on channel widths 8,8,8,8,6,6,6,6,4,4,4,4 at steps 0..11.
C1_DefaultSequence ==
    (IsDefaultConfig /\ first_channels # <<>>)
        => first_channels = <<8, 8, 8, 8, 6, 6, 6, 6, 4, 4, 4, 4>>

C1_Witness ==
    IsDefaultConfig /\ Len(first_channels) = DefaultFlows /\ ForwardReturned

\* C2: for every configuration, the widths infer uses at steps n_flows-1..0
\* mirror the widths the forward pass of a fresh model uses at steps
\* 0..n_flows-1: the same width at every step index, the initial noise has the
\* width of forward's final step, and infer ends with n_group channels.
C2_Mirror ==
    first_channels # <<>> =>
        /\ \A i \in 1..Len(inf_channels) :
               inf_channels[i] = first_channels[self.n_flows + 1 - i]
        /\ Len(inf_channels) >= 1 => noise_channels = first_channels[self.n_flows]
        /\ InferReturned =>
               /\ inf_channels = Reverse(first_channels)
               /\ remaining_channels = self.n_group

C2_Witness ==
    /\ first_channels # <<>>
    /\ InferReturned
    /\ Len(inf_early) >= 2
    /\ self.n_early_size > 0
    /\ noise_channels < self.n_group

\* a configuration whose flow would split an odd channel count in a coupling,
\* or whose early outputs would leave zero channels or fewer
InvalidConfig ==
    \E j \in 0..(self.n_flows - 1) : WidthAt(j) % 2 # 0 \/ WidthAt(j) <= 0

\* C3 as stated: forward and infer leave n_remaining_channels as it was, so a
\* further forward call starts from n_group channels and visits the widths of
\* the first call.  Stated for the configurations whose channel counts are
\* even and positive at every step.
C3_CallsArePure ==
    ~InvalidConfig =>
        /\ pc = "idle" => self.n_remaining_channels = self.n_group
        /\ Len(fwd_channels) >= 1 => fwd_channels[1] = self.n_group
        /\ (ForwardReturned /\ first_channels # <<>>) => fwd_channels = first_channels

\* early outputs are split off exactly at the steps k > 0 with
\* k mod n_early_every = 0, once each
SplitSteps ==
    /\ Range(fwd_early) = EarlySteps(FwdTested)
    /\ Cardinality(Range(fwd_early)) = Len(fwd_early)

\* n_early_size is subtracted once at each such step, before the step's
\* 1x1 convolution and coupling
SubtractedOnceBefore ==
    /\ \A i \in 2..Len(fwd_channels) :
           fwd_channels[i] = fwd_channels[i - 1]
                - (IF (i - 1) \in Range(fwd_early) THEN self.n_early_size ELSE 0)
    /\ (pc = "fwd_glow" /\ Len(fwd_channels) >= 1) =>
           self.n_remaining_channels = fwd_channels[Len(fwd_channels)]
                - (IF k \in Range(fwd_early) THEN self.n_early_size ELSE 0)

\* the widths never increase from one step to the next
Monotone ==
    \A i, j \in 1..Len(fwd_channels) : i <= j => fwd_channels[i] >= fwd_channels[j]

\* C5 as stated: early outputs are split off exactly at the steps k > 0 with
\* k mod n_early_every = 0, n_early_size is subtracted once at each such step
\* and before the step's transform, the final step never splits, and the
\* widths never increase.  Stated for the configurations with
\* n_early_size > 0 whose channel counts are even and positive at every step.
C5_Original ==
    (~InvalidConfig /\ self.n_early_size > 0) =>
        /\ SplitSteps
        /\ SubtractedOnceBefore
        /\ (self.n_flows - 1) \notin Range(fwd_early)
        /\ Monotone

\* C5 amended: for every configuration, as C5, except that the final step
\* k = n_flows-1 does split when n_flows > 1 and (n_flows-1) mod
\* n_early_every = 0, and only then (not with the default 12 and 4).
C5_Amended ==
    /\ SplitSteps
    /\ SubtractedOnceBefore
    /\ ForwardReturned =>
          ((self.n_flows - 1) \in Range(fwd_early)
              <=> (self.n_flows > 1 /\ (self.n_flows - 1) % self.n_early_every = 0))
    /\ (IsDefaultConfig => (self.n_flows - 1) \notin Range(fwd_early))
    /\ Monotone

C5_Witness ==
    /\ ForwardReturned
    /\ Len(fwd_early) >= 2
    /\ self.n_early_size > 0
    /\ (self.n_flows - 1) \in Range(fwd_early)
    /\ ~InvalidConfig
    /\ fwd_channels[self.n_flows] = fwd_channels[1] - 2 * self.n_early_size

\* C6 as stated: such a configuration fails with InvalidChannelCount when the
\* model is constructed, and no forward or inverse step is built on it.
C6_InvalidRejected ==
    InvalidConfig =>
        /\ error = "InvalidChannelCount"
        /\ pc = "idle"
        /\ fwd_channels = <<>>
        /\ inf_channels = <<>>

-----------------------------------------------------------------------------
(* Properties of the padding, checked under SpecPad *)

\* the place of element [b, t, c] of the input in the result of time_to_batch
InBatch(x, d, b, t, c) == At(x, (t % d) * value.shape[1] + b, t \div d, c)

\* the place of element [b, t, c] of the input in infer's reshaped lc_batch
InGroup(x, n_group, b, t, c) ==
    At(x, b, t \div n_group, (t % n_group) * value.shape[3] + c)

\* C10: the pad length m - 1 - (L + m - 1) mod m of time_to_batch and infer is
\* in 0..m-1 and makes L + pad a multiple of m (0 when L already is one); the
\* padded sequence keeps every element of the input and adds only zeros.
C10_PadToMultiple ==
    op \in {"time_to_batch", "infer_pad"} =>
        LET B == value.shape[1]
            L == value.shape[2]
            C == value.shape[3]
            m == dilation
        IN  /\ pad >= 0 /\ pad < m
            /\ (L + pad) % m = 0
            /\ (L % m = 0) => pad = 0
            /\ Len(result.data) = B * (L + pad) * C
            /\ op = "time_to_batch" =>
                  /\ result.shape = <<B * m, (L + pad) \div m, C>>
                  /\ \A b \in 0..(B - 1), t \in 0..(L + pad - 1), c \in 0..(C - 1) :
                        InBatch(result, m, b, t, c) =
                            IF t < L THEN At(value, b, t, c) ELSE 0
            /\ op = "infer_pad" =>
                  /\ result.shape = <<B, (L + pad) \div m, C * m>>
                  /\ \A b \in 0..(B - 1), t \in 0..(L + pad - 1), c \in 0..(C - 1) :
                        InGroup(result, m, b, t, c) =
                            IF t < L THEN At(value, b, t, c) ELSE 0

C10_Witness ==
    /\ op = "infer_pad"
    /\ value.shape[2] = 5
    /\ dilation = 3
    /\ pad = 1
    /\ result.shape[2] = 2

-----------------------------------------------------------------------------
(* Properties of causal_conv, checked under SpecConv *)

\* the inputs agree at every time up to t
AgreeUpTo(t) ==
    \A b \in 0..(value.shape[1] - 1), u \in 0..t :
        At(value, b, u, 0) = At(value2, b, u, 0)

\* C4 as stated: the output of causal_conv at time t depends only on the
\* input at times up to t: two inputs that agree up to t give the same output
\* at t.
C4_Causal ==
    op = "causal_conv" =>
        \A b \in 0..(value.shape[1] - 1), t \in 0..(value.shape[2] - 1) :
            AgreeUpTo(t) => At(result, b, t, 0) = At(result2, b, t, 0)

-----------------------------------------------------------------------------
(* Properties of compute_waveglow_loss, checked under SpecLoss *)

\* the sum of all entries of all tensors of a list
AllLogS == SeqSum([i \in 1..Len(log_s_list) |-> SeqSum(log_s_list[i].data)])

AllLogDet == SeqSum(log_det_W_list)

AllZero ==
    /\ \A i \in 1..Len(log_s_list) : \A j \in 1..Len(log_s_list[i].data) :
          log_s_list[i].data[j] = 0
    /\ \A i \in 1..Len(log_det_W_list) : log_det_W_list[i] = 0

\* C7: the loss is (sum(z^2)/(2 sigma^2) - S - D) / (B*T*C), with S the sum
\* of all entries of all log_s tensors and D the sum of all log-determinants,
\* each subtracted once; with all of them zero it is sum(z^2)/(2 sigma^2)
\* over the element count of z.  With sigma = p/q the value is
\* (q^2 sum(z^2) - 2 p^2 (S + D)) / (2 p^2 B T C).
C7_LossFormula ==
    loss # NoValue =>
        LET p == sigma.num
            q == sigma.den
            N == Len(z.data)
        IN  /\ loss.den > 0
            /\ loss.num * (2 * p * p * N)
                 = loss.den * (q * q * ReduceSumSquares(z)
                                 - 2 * p * p * (AllLogS + AllLogDet))
            /\ AllZero =>
                 loss.num * (2 * p * p * N) = loss.den * (q * q * ReduceSumSquares(z))

C7_Witness ==
    /\ loss # NoValue
    /\ Len(log_s_list) = 2
    /\ AllLogS = 3
    /\ AllLogDet = -1
    /\ sigma = Frac(1, 2)
    /\ ReduceSumSquares(z) = 5
    /\ loss = FromInt(4)

-----------------------------------------------------------------------------
(* Properties of the affine coupling, checked under SpecCoupling *)

\* C8: for one flow step with fixed parameters and conditioning the inverse
\* coupling undoes the forward coupling: both leave the first half audio_0
\* unchanged, both compute the same (log_s, shift) from it, and the inverse
\* returns the original audio.
C8_CouplingInverts ==
    /\ audio_batch # <<>> =>
          ChannelsTo(audio_batch, Len(audio) \div 2) = ChannelsTo(audio, Len(audio) \div 2)
    /\ generated # <<>> =>
          /\ ChannelsTo(generated, Len(audio) \div 2)
                = ChannelsTo(audio_batch, Len(audio) \div 2)
          /\ inf_nets = fwd_nets
          /\ generated = audio

C8_Witness ==
    /\ generated = audio
    /\ Len(audio) = 4
    /\ audio_batch # audio
    /\ fwd_nets[1].log_s = <<-1, 1>>
    /\ fwd_nets[1].shift[1] # FromInt(0)
    /\ inf_nets = fwd_nets

-----------------------------------------------------------------------------
(* Properties of the flow with its tensors, checked under SpecFlow *)

\* slice i of the latent: the early outputs in the order forward split them
\* off, then the channels that remained
LatentSlice(i) ==
    IF i <= Len(fwd_early)
      THEN SubSeq(latent, (i - 1) * self.n_early_size + 1, i * self.n_early_size)
      ELSE SubSeq(latent, Len(fwd_early) * self.n_early_size + 1, Len(latent))

\* infer started from the remaining channels of the latent and re-injected
\* its early outputs, the last split off first
DrawnFromLatent ==
    /\ Len(drawn) = Len(fwd_early) + 1
    /\ \A i \in 1..Len(drawn) : drawn[i] = LatentSlice(Len(fwd_early) + 2 - i)

\* C9: infer is the reverse composition of the forward pass: it visits the
\* steps n_flows-1 down to 0, undoes the coupling and then the 1x1
\* convolution of each, and prepends n_early_size channels after the inverse
\* of each step at which forward split; given the slices of forward's z
\* instead of fresh noise it returns the audio given to forward.
C9_ReverseComposition ==
    /\ pc = "inf_glow" => k = self.n_flows - 1 - Len(inf_channels)
    /\ pc = "inf_early" => k = self.n_flows - Len(inf_channels)
    /\ (ForwardReturned /\ InferReturned) =>
          /\ inf_early = Reverse(fwd_early)
          /\ Len(drawn) = Len(fwd_early) + 1
          /\ \A i \in 2..Len(drawn) : Len(drawn[i]) = self.n_early_size
          /\ DrawnFromLatent => generated = audio

C9_Witness ==
    /\ ForwardReturned
    /\ InferReturned
    /\ DrawnFromLatent
    /\ self.n_flows = 3
    /\ Len(fwd_early) = 2
    /\ self.n_early_size = 2
    /\ weights.a # 0
    /\ latent # audio
    /\ infer_sigma = FromInt(2)
    /\ generated = audio

=============================================================================
